---- MODULE Spec2Model ----
(***************************************************************************)
(* Lead ingestion: header reconciliation against the config table, schema  *)
(* evolution through apply_mapping, identity derivation and deduplicated   *)
(* insertion into the leads table (src/app.py).                            *)
(*                                                                         *)
(* A Python string is a sequence of one-character strings, so that         *)
(* normalize_header, strip, split and the digit filter are computed        *)
(* character by character as the code computes them.                       *)
(***************************************************************************)
EXTENDS Integers, Sequences, FiniteSets, TLC

\* ------------------------------------------------------------------ bounds
\* Completed runs (rows of processing_log) explored.
MaxRuns == 3

\* The longest header row map_headers is called with.
MaxHeaders == 3

\* ----------------------------------------------------------------- strings
UpperCase == <<"A", "B", "C", "D", "E", "F", "G", "H", "I", "J", "K", "L", "M",
               "N", "O", "P", "Q", "R", "S", "T", "U", "V", "W", "X", "Y", "Z">>
LowerCase == <<"a", "b", "c", "d", "e", "f", "g", "h", "i", "j", "k", "l", "m",
               "n", "o", "p", "q", "r", "s", "t", "u", "v", "w", "x", "y", "z">>
Digits == {"0", "1", "2", "3", "4", "5", "6", "7", "8", "9"}

UpperSet == {UpperCase[i] : i \in 1..Len(UpperCase)}
LowerSet == {LowerCase[i] : i \in 1..Len(LowerCase)}
ToLower ==
  [c \in UpperSet |-> LowerCase[CHOOSE i \in 1..Len(UpperCase) : UpperCase[i] = c]]

\* str.lower(), one character
lower_char(c) == IF c \in UpperSet THEN ToLower[c] ELSE c

\* str.lower()
lower(s) == [i \in 1..Len(s) |-> lower_char(s[i])]

\* str.isalnum(), one character
isalnum(c) == c \in Digits \/ c \in LowerSet \/ c \in UpperSet

\* str.isdigit(), one character
isdigit(c) == c \in Digits

\* str.isspace(), one character
isspace(c) == c \in {" ", "\t", "\n"}

RECURSIVE lstrip(_)
lstrip(s) == IF s # <<>> /\ isspace(Head(s)) THEN lstrip(Tail(s)) ELSE s

RECURSIVE rstrip(_)
rstrip(s) ==
  IF s # <<>> /\ isspace(s[Len(s)]) THEN rstrip(SubSeq(s, 1, Len(s) - 1)) ELSE s

\* str.strip()
strip(s) == rstrip(lstrip(s))

\* str.split(sep) for a one-character separator
RECURSIVE split(_, _)
split(s, sep) ==
  IF \E i \in 1..Len(s) : s[i] = sep
  THEN LET i == CHOOSE k \in 1..Len(s) :
                  s[k] = sep /\ \A j \in 1..(k - 1) : s[j] # sep
       IN  <<SubSeq(s, 1, i - 1)>> \o split(SubSeq(s, i + 1, Len(s)), sep)
  ELSE <<s>>

\* The empty string, which is falsy in Python.
EmptyStr == <<>>

\* pandas' NaN (a blank cell) and SQL NULL: neither is a string of characters.
NaN == <<"NaN">>
NULL == <<"NULL">>

\* --------------------------------------------------------- the seeded schema
col_name == <<"n", "a", "m", "e">>
col_email == <<"e", "m", "a", "i", "l">>
col_last_name == <<"l", "a", "s", "t", "_", "n", "a", "m", "e">>
col_title == <<"t", "i", "t", "l", "e">>
col_company_name == <<"c", "o", "m", "p", "a", "n", "y", "_", "n", "a", "m", "e">>
col_mobile_phone == <<"m", "o", "b", "i", "l", "e", "_", "p", "h", "o", "n", "e">>
col_company_phone == <<"c", "o", "m", "p", "a", "n", "y", "_", "p", "h", "o", "n", "e">>
col_employee_count == <<"e", "m", "p", "l", "o", "y", "e", "e", "_", "c", "o", "u", "n", "t">>
col_person_linkedin_url == <<"p", "e", "r", "s", "o", "n", "_", "l", "i", "n", "k", "e", "d", "i", "n", "_", "u", "r", "l">>
col_website == <<"w", "e", "b", "s", "i", "t", "e">>
col_company_linkedin_url == <<"c", "o", "m", "p", "a", "n", "y", "_", "l", "i", "n", "k", "e", "d", "i", "n", "_", "u", "r", "l">>
col_city == <<"c", "i", "t", "y">>
col_state == <<"s", "t", "a", "t", "e">>
col_country == <<"c", "o", "u", "n", "t", "r", "y">>
col_industry == <<"i", "n", "d", "u", "s", "t", "r", "y">>

\* seed_config: default_config, one row per canonical column, in insertion order.
default_config ==
  <<
    [canonical_column |-> col_name,
     header_aliases |-> <<"n", "a", "m", "e", ",", "f", "i", "r", "s", "t", " ", "n", "a", "m", "e", ",", "f", "u", "l", "l", " ", "n", "a", "m", "e", ",", "f", "n", "a", "m", "e">>,
     required |-> 0],
    [canonical_column |-> col_email,
     header_aliases |-> <<"e", "m", "a", "i", "l", ",", "e", "m", "a", "i", "l", " ", "a", "d", "d", "r", "e", "s", "s", ",", "e", "-", "m", "a", "i", "l", ",", "w", "o", "r", "k", " ", "e", "m", "a", "i", "l", ",", "e", "m", "a", "i", "l", " ", "a", "d", "d", "r">>,
     required |-> 1],
    [canonical_column |-> col_last_name,
     header_aliases |-> <<"l", "a", "s", "t", " ", "n", "a", "m", "e", ",", "l", "a", "s", "t", ",", "l", "n", "a", "m", "e", ",", "s", "u", "r", "n", "a", "m", "e">>,
     required |-> 0],
    [canonical_column |-> col_title,
     header_aliases |-> <<"t", "i", "t", "l", "e", ",", "j", "o", "b", " ", "t", "i", "t", "l", "e", ",", "p", "o", "s", "i", "t", "i", "o", "n", ",", "r", "o", "l", "e">>,
     required |-> 0],
    [canonical_column |-> col_company_name,
     header_aliases |-> <<"c", "o", "m", "p", "a", "n", "y", ",", "c", "o", "m", "p", "a", "n", "y", " ", "n", "a", "m", "e", ",", "o", "r", "g", "a", "n", "i", "z", "a", "t", "i", "o", "n", ",", "e", "m", "p", "l", "o", "y", "e", "r">>,
     required |-> 0],
    [canonical_column |-> col_mobile_phone,
     header_aliases |-> <<"m", "o", "b", "i", "l", "e", ",", "m", "o", "b", "i", "l", "e", " ", "p", "h", "o", "n", "e", ",", "c", "e", "l", "l", ",", "c", "e", "l", "l", " ", "p", "h", "o", "n", "e", ",", "p", "e", "r", "s", "o", "n", "a", "l", " ", "p", "h", "o", "n", "e">>,
     required |-> 0],
    [canonical_column |-> col_company_phone,
     header_aliases |-> <<"p", "h", "o", "n", "e", ",", "c", "o", "m", "p", "a", "n", "y", " ", "p", "h", "o", "n", "e", ",", "w", "o", "r", "k", " ", "p", "h", "o", "n", "e", ",", "o", "f", "f", "i", "c", "e", " ", "p", "h", "o", "n", "e", ",", "t", "e", "l", "e", "p", "h", "o", "n", "e">>,
     required |-> 0],
    [canonical_column |-> col_employee_count,
     header_aliases |-> <<"e", "m", "p", "l", "o", "y", "e", "e", "s", ",", "#", " ", "e", "m", "p", "l", "o", "y", "e", "e", "s", ",", "c", "o", "m", "p", "a", "n", "y", " ", "s", "i", "z", "e", ",", "h", "e", "a", "d", "c", "o", "u", "n", "t", ",", "#", " ", "o", "f", " ", "e", "m", "p", "l", "o", "y", "e", "e", "s">>,
     required |-> 0],
    [canonical_column |-> col_person_linkedin_url,
     header_aliases |-> <<"l", "i", "n", "k", "e", "d", "i", "n", ",", "p", "e", "r", "s", "o", "n", " ", "l", "i", "n", "k", "e", "d", "i", "n", ",", "l", "i", "n", "k", "e", "d", "i", "n", " ", "u", "r", "l", ",", "l", "i", "n", "k", "e", "d", "i", "n", " ", "p", "r", "o", "f", "i", "l", "e", ",", "p", "r", "o", "f", "i", "l", "e", " ", "u", "r", "l">>,
     required |-> 0],
    [canonical_column |-> col_website,
     header_aliases |-> <<"w", "e", "b", "s", "i", "t", "e", ",", "u", "r", "l", ",", "c", "o", "m", "p", "a", "n", "y", " ", "u", "r", "l", ",", "w", "e", "b", ",", "s", "i", "t", "e">>,
     required |-> 0],
    [canonical_column |-> col_company_linkedin_url,
     header_aliases |-> <<"c", "o", "m", "p", "a", "n", "y", " ", "l", "i", "n", "k", "e", "d", "i", "n", ",", "c", "o", "m", "p", "a", "n", "y", " ", "l", "i", "n", "k", "e", "d", "i", "n", " ", "u", "r", "l", ",", "o", "r", "g", "a", "n", "i", "z", "a", "t", "i", "o", "n", " ", "l", "i", "n", "k", "e", "d", "i", "n">>,
     required |-> 0],
    [canonical_column |-> col_city,
     header_aliases |-> <<"c", "i", "t", "y", ",", "t", "o", "w", "n", ",", "l", "o", "c", "a", "t", "i", "o", "n">>,
     required |-> 0],
    [canonical_column |-> col_state,
     header_aliases |-> <<"s", "t", "a", "t", "e", ",", "p", "r", "o", "v", "i", "n", "c", "e", ",", "r", "e", "g", "i", "o", "n">>,
     required |-> 0],
    [canonical_column |-> col_country,
     header_aliases |-> <<"c", "o", "u", "n", "t", "r", "y", ",", "n", "a", "t", "i", "o", "n">>,
     required |-> 0],
    [canonical_column |-> col_industry,
     header_aliases |-> <<"i", "n", "d", "u", "s", "t", "r", "y", ",", "s", "e", "c", "t", "o", "r", ",", "v", "e", "r", "t", "i", "c", "a", "l", ",", "f", "i", "e", "l", "d">>,
     required |-> 0]
  >>

\* -------------------------------------------------------- utility functions
\* A Python dict, kept as the sequence of its assignments d[k] = v in the order
\* they were made: k is a key when some assignment names it, and d[k] is the
\* value of the last assignment to k.
EmptyDict == <<>>

dict_has(d, k) == \E i \in 1..Len(d) : d[i][1] = k

dict_get(d, k) ==
  LET at == {i \in 1..Len(d) : d[i][1] = k}
  IN  d[CHOOSE i \in at : \A j \in at : j <= i][2]

\* d.get(k, default)
dict_get_or(d, k, default) == IF dict_has(d, k) THEN dict_get(d, k) ELSE default

\* d[k] = v
dict_set(d, k, v) == Append(d, <<k, v>>)

\* normalize_header: lower-case, keep the alphanumeric characters
normalize_header(header) ==
  IF header = EmptyStr
  THEN EmptyStr
  ELSE SelectSeq(lower(header), isalnum)

NotEmptyStr(a) == a # EmptyStr

\* The aliases of the alias string alone, the canonical name not appended.
parse_aliases_listed(aliases_str, canonical) ==
  LET parts == split(aliases_str, ",")
      stripped == [i \in 1..Len(parts) |-> strip(parts[i])]
  IN  SelectSeq(stripped, NotEmptyStr)

\* [a.strip() for a in aliases_str.split(',') if a.strip()], then
\* aliases.append(canonical)
parse_aliases(aliases_str, canonical) ==
  LET parts == split(aliases_str, ",")
      stripped == [i \in 1..Len(parts) |-> strip(parts[i])]
  IN  SelectSeq(stripped, NotEmptyStr) \o <<canonical>>

\* for alias in aliases: schema['alias_map'][normalize_header(alias)] = canonical
\* The assignments one config row makes, in order.
row_aliases(row) ==
  LET aliases == parse_aliases(row.header_aliases, row.canonical_column)
  IN  [i \in 1..Len(aliases) |->
         <<normalize_header(aliases[i]), row.canonical_column>>]

\* for row in rows: ... of get_schema
RECURSIVE build_alias_map(_)
build_alias_map(rows) ==
  IF rows = <<>>
  THEN EmptyDict
  ELSE build_alias_map(SubSeq(rows, 1, Len(rows) - 1))
         \o row_aliases(rows[Len(rows)])

IsRequired(row) == row.required # 0

\* get_schema: the rows of config in rowid order
get_schema(cfg) ==
  [columns |-> [i \in 1..Len(cfg) |-> cfg[i].canonical_column],
   alias_map |-> build_alias_map(cfg),
   required_columns |->
     LET req == SelectSeq(cfg, IsRequired)
     IN  [i \in 1..Len(req) |-> req[i].canonical_column]]

\* map_headers that looks a header up by header.lower().strip(), the
\* punctuation kept.
RECURSIVE map_headers_from_lower(_, _, _, _)
map_headers_from_lower(headers, schema, header_map, unknown_headers) ==
  IF headers = <<>>
  THEN [header_map |-> header_map, unknown_headers |-> unknown_headers]
  ELSE LET original_header == Head(headers)
           normalized == strip(lower(original_header))
       IN  IF dict_has(schema.alias_map, normalized)
           THEN map_headers_from_lower(
                  Tail(headers), schema,
                  dict_set(header_map, original_header,
                           dict_get(schema.alias_map, normalized)),
                  unknown_headers)
           ELSE map_headers_from_lower(Tail(headers), schema, header_map,
                                       Append(unknown_headers, original_header))

\* map_headers that puts each unknown header in front of the list.
RECURSIVE map_headers_from_newest_first(_, _, _, _)
map_headers_from_newest_first(headers, schema, header_map, unknown_headers) ==
  IF headers = <<>>
  THEN [header_map |-> header_map, unknown_headers |-> unknown_headers]
  ELSE LET original_header == Head(headers)
           normalized == normalize_header(original_header)
       IN  IF dict_has(schema.alias_map, normalized)
           THEN map_headers_from_newest_first(
                  Tail(headers), schema,
                  dict_set(header_map, original_header,
                           dict_get(schema.alias_map, normalized)),
                  unknown_headers)
           ELSE map_headers_from_newest_first(
                  Tail(headers), schema, header_map,
                  <<original_header>> \o unknown_headers)

\* map_headers: (header_map, unknown_headers)
RECURSIVE map_headers_from(_, _, _, _)
map_headers_from(headers, schema, header_map, unknown_headers) ==
  IF headers = <<>>
  THEN [header_map |-> header_map, unknown_headers |-> unknown_headers]
  ELSE LET original_header == Head(headers)
           normalized == normalize_header(original_header)
       IN  IF dict_has(schema.alias_map, normalized)
           THEN map_headers_from(
                  Tail(headers), schema,
                  dict_set(header_map, original_header,
                           dict_get(schema.alias_map, normalized)),
                  unknown_headers)
           ELSE map_headers_from(Tail(headers), schema, header_map,
                                 Append(unknown_headers, original_header))

map_headers(headers, schema) ==
  map_headers_from(headers, schema, EmptyDict, <<>>)

PHONE_ == <<"P", "H", "O", "N", "E", "_">>

\* generate_lead_id that lower-cases the email and does not strip it.
generate_lead_id_unstripped(email, phone) ==
  IF email # EmptyStr /\ strip(email) # EmptyStr
  THEN lower(email)
  ELSE IF phone # EmptyStr /\ strip(phone) # EmptyStr
       THEN PHONE_ \o SelectSeq(phone, isdigit)
       ELSE EmptyStr

\* generate_lead_id: the email, else PHONE_ and the digits of the phone, else ''
generate_lead_id(email, phone) ==
  IF email # EmptyStr /\ strip(email) # EmptyStr
  THEN strip(lower(email))
  ELSE IF phone # EmptyStr /\ strip(phone) # EmptyStr
       THEN PHONE_ \o SelectSeq(phone, isdigit)
       ELSE EmptyStr

\* ------------------------------------------------------------ the leads table
col_lead_id == <<"l", "e", "a", "d", "_", "i", "d">>
col_source_file == <<"s", "o", "u", "r", "c", "e", "_", "f", "i", "l", "e">>
col_lead_status == <<"l", "e", "a", "d", "_", "s", "t", "a", "t", "u", "s">>
Active == <<"A", "c", "t", "i", "v", "e">>

\* The columns the INSERT of process_data names after lead_id, in its order.
lead_data_columns ==
  <<col_name, col_email, col_last_name, col_title, col_company_name,
    col_mobile_phone, col_company_phone, col_employee_count,
    col_person_linkedin_url, col_website, col_company_linkedin_url,
    col_city, col_state, col_country, col_industry>>

\* CREATE TABLE leads: the columns the model keeps (the row id, the timestamps,
\* duplicate_flag and processing_notes are written by no statement of the code).
leads_base_columns ==
  {col_lead_id, col_source_file, col_lead_status}
    \cup {lead_data_columns[i] : i \in 1..Len(lead_data_columns)}

\* Python's None; sqlite3 stores it as NULL.
None == NULL

\* ------------------------------------------------------------- process_data
\* lead_data of one row: for original_header, canonical_column in
\* header_map.items(): lead_data[canonical_column] = str(value) if
\* pd.notna(value) else ''.  A row is the sequence of its cells, in the order
\* of the file's headers (pandas makes the column labels of a file distinct).
row_lead_data(row, headers, header_map) ==
  [i \in 1..Len(header_map) |->
     LET original_header == header_map[i][1]
         value == row[CHOOSE k \in 1..Len(headers) : headers[k] = original_header]
     IN  <<header_map[i][2], IF value # NaN THEN value ELSE EmptyStr>>]

\* email = lead_data.get('email', '')
row_email(lead_data) == dict_get_or(lead_data, col_email, EmptyStr)

\* phone = lead_data.get('mobile_phone') or lead_data.get('company_phone', '')
row_phone(lead_data) ==
  LET mobile == dict_get_or(lead_data, col_mobile_phone, None)
  IN  IF mobile # None /\ mobile # EmptyStr
      THEN mobile
      ELSE dict_get_or(lead_data, col_company_phone, EmptyStr)

\* The lookup made on the email column instead of lead_id.
lead_exists_by_email(table, lead_id) ==
  \E i \in 1..Len(table) : table[i][col_email] = lead_id

\* SELECT COUNT(*) FROM leads WHERE lead_id = ? on the rows of `table`
lead_exists(table, lead_id) ==
  \E i \in 1..Len(table) : table[i][col_lead_id] = lead_id

\* check_duplicate: a connection of its own, which reads the committed rows
check_duplicate(email, phone, committed) ==
  LET lead_id == generate_lead_id(email, phone)
  IN  IF lead_id = EmptyStr THEN FALSE ELSE lead_exists(committed, lead_id)

\* The row the INSERT of process_data writes: lead_id, the fifteen seeded
\* columns from lead_data, source_file and 'Active'; any other column of the
\* table takes its default, NULL.
new_lead(columns, lead_id, lead_data, source_file) ==
  [c \in columns |->
     IF c = col_lead_id THEN lead_id
     ELSE IF c = col_source_file THEN source_file
     ELSE IF c = col_lead_status THEN Active
     ELSE IF \E i \in 1..Len(lead_data_columns) : lead_data_columns[i] = c
          THEN dict_get_or(lead_data, c, EmptyStr)
          ELSE NULL]

\* What the loop of process_data carries: table leads as the connection of
\* process_data sees it (the committed rows and the rows of its own open
\* transaction), the two counters, and what became of each row so far.
NewRun(committed) ==
  [table |-> committed, new_leads |-> 0, duplicates |-> 0, outcomes |-> <<>>]

Outcome(lead_id, outcome, lead_data) ==
  [lead_id |-> lead_id, outcome |-> outcome, lead_data |-> lead_data]

\* if not lead_id: continue
skip_row(st, lead_id, lead_data) ==
  [st EXCEPT !.outcomes = Append(@, Outcome(lead_id, "skipped", lead_data))]

\* duplicates += 1 (after check_duplicate, or in except sqlite3.IntegrityError)
count_duplicate(st, lead_id, lead_data) ==
  [st EXCEPT !.duplicates = @ + 1,
             !.outcomes = Append(@, Outcome(lead_id, "duplicate", lead_data))]

\* c.execute(INSERT ...) succeeded; new_leads += 1
insert_lead(st, columns, lead_id, lead_data, source_file) ==
  [st EXCEPT !.table = Append(@, new_lead(columns, lead_id, lead_data, source_file)),
             !.new_leads = @ + 1,
             !.outcomes = Append(@, Outcome(lead_id, "inserted", lead_data))]

\* process_row on a table whose lead_id is not UNIQUE: the INSERT never raises.
process_row_no_unique(st, committed, columns, row, headers, header_map, source_file) ==
  LET lead_data == row_lead_data(row, headers, header_map)
      lead_id == generate_lead_id(row_email(lead_data), row_phone(lead_data))
  IN  IF lead_id = EmptyStr
      THEN skip_row(st, lead_id, lead_data)
      ELSE IF check_duplicate(row_email(lead_data), row_phone(lead_data),
                              committed)
      THEN count_duplicate(st, lead_id, lead_data)
      ELSE insert_lead(st, columns, lead_id, lead_data, source_file)

\* process_row with INSERT OR REPLACE: a repeat sighting overwrites the row.
process_row_replace(st, committed, columns, row, headers, header_map, source_file) ==
  LET lead_data == row_lead_data(row, headers, header_map)
      lead_id == generate_lead_id(row_email(lead_data), row_phone(lead_data))
  IN  IF lead_id = EmptyStr
      THEN skip_row(st, lead_id, lead_data)
      ELSE IF lead_exists(st.table, lead_id)
      THEN [count_duplicate(st, lead_id, lead_data) EXCEPT !.table =
              [i \in 1..Len(st.table) |->
                 IF st.table[i][col_lead_id] = lead_id
                 THEN new_lead(columns, lead_id, lead_data, source_file)
                 ELSE st.table[i]]]
      ELSE insert_lead(st, columns, lead_id, lead_data, source_file)

\* process_row whose except sqlite3.IntegrityError branch is a bare pass: the
\* row is not inserted and no counter moves.
process_row_integrity_pass(st, committed, columns, row, headers, header_map, source_file) ==
  LET lead_data == row_lead_data(row, headers, header_map)
      lead_id == generate_lead_id(row_email(lead_data), row_phone(lead_data))
  IN  IF lead_id = EmptyStr
      THEN skip_row(st, lead_id, lead_data)
      ELSE IF check_duplicate(row_email(lead_data), row_phone(lead_data),
                              committed)
      THEN count_duplicate(st, lead_id, lead_data)
      ELSE IF lead_exists(st.table, lead_id)
      THEN [st EXCEPT !.outcomes =
              Append(@, Outcome(lead_id, "duplicate", lead_data))]
      ELSE insert_lead(st, columns, lead_id, lead_data, source_file)

\* One iteration of for _, row in df.iterrows().  check_duplicate reads the
\* committed rows; the INSERT runs on the connection of process_data, and
\* lead_id is UNIQUE: a second row with a lead_id raises IntegrityError.
process_row(st, committed, columns, row, headers, header_map, source_file) ==
  LET lead_data == row_lead_data(row, headers, header_map)
      email == row_email(lead_data)
      phone == row_phone(lead_data)
      lead_id == generate_lead_id(email, phone)
  IN  IF lead_id = EmptyStr
      THEN skip_row(st, lead_id, lead_data)
      ELSE IF check_duplicate(email, phone, committed)
      THEN count_duplicate(st, lead_id, lead_data)
      ELSE IF lead_exists(st.table, lead_id)
      THEN count_duplicate(st, lead_id, lead_data)
      ELSE insert_lead(st, columns, lead_id, lead_data, source_file)

RECURSIVE process_rows(_, _, _, _, _, _)
process_rows(n, committed, columns, file, header_map, source_file) ==
  IF n = 0
  THEN NewRun(committed)
  ELSE process_row(
         process_rows(n - 1, committed, columns, file, header_map, source_file),
         committed, columns, file.rows[n], file.headers, header_map, source_file)

\* success_rate = new_leads / total_rows * 100 if total_rows > 0 else 0, kept
\* as the fraction <<numerator, denominator>>
success_rate(new_leads, total_rows) ==
  IF total_rows > 0 THEN <<new_leads * 100, total_rows>> ELSE <<0, 1>>

\* round(success_rate, 1), in tenths, to the nearest tenth
round_1(rate) == (rate[1] * 20 + rate[2]) \div (2 * rate[2])

\* process_data: the rows in file order, then the processing_log row and the
\* commit.  Returns table leads as committed, the log row and the response.
process_data(committed, columns, file, header_map, source_file) ==
  LET total_rows == Len(file.rows)
      st == process_rows(total_rows, committed, columns, file, header_map,
                         source_file)
  IN  [table |-> st.table,
       outcomes |-> st.outcomes,
       log |-> [source_file |-> source_file, total_rows |-> total_rows,
                new_leads |-> st.new_leads, duplicates |-> st.duplicates,
                success_rate |-> success_rate(st.new_leads, total_rows)],
       result |-> [status |-> "success", total_rows |-> total_rows,
                   new_leads |-> st.new_leads, duplicates |-> st.duplicates,
                   success_rate |->
                     round_1(success_rate(st.new_leads, total_rows))]]

\* ------------------------------------------------------------------- inputs
\* The parsed uploads explored: the file name, df.columns and the rows of df.
\* A blank cell is NaN.
\* Known headers; two rows whose emails differ in case and spacing only.
FileA ==
  [name |-> <<"a", ".", "c", "s", "v">>,
   headers |-> <<<<"F", "u", "l", "l", " ", "N", "a", "m", "e">>,
                <<"W", "o", "r", "k", " ", "E", "m", "a", "i", "l">>,
                <<"P", "h", "o", "n", "e">>>>,
   rows |-> <<<<<<"J", "a", "n", "e">>, <<"j", "@", "x", ".", "c", "o">>, <<"5", "5", "5", "-", "1", "2", "1", "2">>>>,
             <<<<"J", "a", "n", "e", "t">>, <<" ", "J", "@", "X", ".", "c", "o">>, NaN>>>>]

\* Known headers; a row with the email of FileA and another name, rows that
\* carry phones only, and a row with no email and no phone.
FileB ==
  [name |-> <<"b", ".", "c", "s", "v">>,
   headers |-> <<<<"n", "a", "m", "e">>,
                <<"E", "-", "m", "a", "i", "l">>,
                <<"M", "o", "b", "i", "l", "e">>,
                <<"P", "h", "o", "n", "e">>>>,
   rows |-> <<<<<<"J", "a", "y">>, <<"j", "@", "x", ".", "c", "o">>, NaN, NaN>>,
             <<<<"B", "o", "b">>, NaN, <<" ">>, <<"5", "5", "5", "-", "1", "2", "1", "2">>>>,
             <<<<"A", "l">>, NaN, NaN, <<"n", "/", "a">>>>,
             <<<<"C", "y">>, NaN, <<"(", "5", "5", "5", ")", " ", "1", "2">>, NaN>>,
             <<<<"D", "i">>, NaN, NaN, NaN>>>>]

\* The header Zip is in no seeded alias list.
FileC ==
  [name |-> <<"c", ".", "c", "s", "v">>,
   headers |-> <<<<"E", "m", "a", "i", "l">>,
                <<"Z", "i", "p">>>>,
   rows |-> <<<<<<"z", "@", "x", ".", "c", "o">>, <<"9", "0", "2", "1", "0">>>>,
             <<<<"j", "@", "x", ".", "c", "o">>, NaN>>>>]

\* A header that holds a comma, in no seeded alias list; no rows.
FileD ==
  [name |-> <<"d", ".", "c", "s", "v">>,
   headers |-> <<<<"E", "m", "a", "i", "l">>,
                <<"Z", "i", "p", ",", "C", "o", "d", "e">>>>,
   rows |-> <<>>]

Files == {FileA, FileB, FileC}

Zip == <<"Z", "i", "p">>
ZipCode == <<"Z", "i", "p", ",", "C", "o", "d", "e">>
map_existing == "map_existing"
create_new == "create_new"

\* One element of request.json['mappings'].
Attach(original_header, target_column) ==
  [action |-> map_existing, originalHeader |-> original_header,
   targetColumn |-> target_column, newColumnName |-> None, isRequired |-> FALSE]

Create(original_header, new_column, is_required) ==
  [action |-> create_new, originalHeader |-> original_header,
   targetColumn |-> None, newColumnName |-> new_column,
   isRequired |-> is_required]

new_zip_code == <<"z", "i", "p", "_", "c", "o", "d", "e">>
new_phone == <<"p", "h", "o", "n", "e">>
nope == <<"n", "o", "p", "e">>

\* The mappings lists explored.
Batches ==
  { <<>>,
    <<Create(Zip, new_zip_code, FALSE)>>,
    <<Attach(Zip, col_city)>>,
    <<Attach(Zip, col_city), Attach(Zip, nope)>>,
    <<Create(Zip, new_phone, FALSE)>>,
    <<Create(Zip, col_email, TRUE)>> }

\* -------------------------------------------------------------------- state
VARIABLES
  config,           \* table config: rows in rowid order
  leads_columns,    \* the columns of table leads
  leads,            \* table leads: the committed rows, in rowid order
  processing_log,   \* table processing_log
  mapping_history,  \* table mapping_history
  uploads,          \* the file names saved in UPLOAD_FOLDER
  pending,          \* the temp_file values a needs_mapping response returned
  response,         \* the JSON body of the last response
  call,             \* history: the last request (handler, file, mappings)
  processed,        \* history: what became of every row processed, per run
  runs,             \* concurrent requests: each request's place in upload_file
  write_lock,       \* the request whose connection holds sqlite's write lock
  evaluation        \* one call of a pure helper: its arguments and its result

vars == <<config, leads_columns, leads, processing_log, mapping_history,
          uploads, pending, response, call, processed, runs, write_lock,
          evaluation>>

\* No pure helper has been called.
NoEvaluation == [op |-> "none"]

\* The requests served at the same time (Flask serves each in its own thread).
RunIds == {1, 2}

\* No lock holder.
NoRun == 0

IdleRun == [pc |-> "idle"]

\* init_db and seed_config on an empty database
Installed ==
  /\ config = default_config
  /\ leads_columns = leads_base_columns
  /\ leads = <<>>
  /\ processing_log = <<>>
  /\ mapping_history = <<>>
  /\ uploads = {}
  /\ pending = {}
  /\ response = [status |-> "none"]
  /\ call = [handler |-> "none"]
  /\ processed = <<>>
  /\ runs = [r \in RunIds |-> IdleRun]
  /\ write_lock = NoRun

Init == Installed /\ evaluation = NoEvaluation

\* ------------------------------------------------------------ apply_mapping
config_index(cfg, canonical) ==
  {i \in 1..Len(cfg) : cfg[i].canonical_column = canonical}

\* map_existing that sets the alias string of the target row to the header.
map_existing_column_overwrite(cfg, original_header, target_column) ==
  [i \in 1..Len(cfg) |->
     IF cfg[i].canonical_column = target_column
     THEN [cfg[i] EXCEPT !.header_aliases = original_header]
     ELSE cfg[i]]

\* action == 'map_existing': if the target row exists, append the header to
\* its alias string
map_existing_column(cfg, original_header, target_column) ==
  [i \in 1..Len(cfg) |->
     IF cfg[i].canonical_column = target_column
     THEN [cfg[i] EXCEPT !.header_aliases = @ \o <<",">> \o original_header]
     ELSE cfg[i]]

\* INSERT OR REPLACE INTO config: the row of the same canonical_column is
\* deleted and the new row is inserted.
insert_or_replace_config(cfg, new_column, original_header, is_required) ==
  Append(SelectSeq(cfg, LAMBDA row : row.canonical_column # new_column),
         [canonical_column |-> new_column,
          header_aliases |-> original_header,
          required |-> IF is_required THEN 1 ELSE 0])

\* INSERT OR IGNORE INTO config: canonical_column is UNIQUE
insert_or_ignore_config(cfg, new_column, original_header, is_required) ==
  IF config_index(cfg, new_column) # {}
  THEN cfg
  ELSE Append(cfg, [canonical_column |-> new_column,
                    header_aliases |-> original_header,
                    required |-> IF is_required THEN 1 ELSE 0])

\* ALTER TABLE leads ADD COLUMN new_column TEXT; an error (the column exists)
\* is swallowed by the bare except
alter_table_add_column(columns, new_column) == columns \cup {new_column}

\* The rows of leads after ADD COLUMN: the new column is NULL in each.
add_column_to_rows(table, columns) ==
  [i \in 1..Len(table) |->
     [c \in columns |-> IF c \in DOMAIN table[i] THEN table[i][c] ELSE NULL]]

\* INSERT INTO mapping_history
log_mapping(history, mapping) ==
  Append(history,
         [original_header |-> mapping.originalHeader,
          action |-> mapping.action,
          target_column |-> IF mapping.targetColumn # None
                            THEN mapping.targetColumn
                            ELSE mapping.newColumnName,
          user |-> "system"])

\* One iteration that writes mapping_history only when the decision changed
\* the config table.
apply_one_mapping_log_applied(db, mapping) ==
  LET cfg == IF mapping.action = map_existing
             THEN map_existing_column(db.config, mapping.originalHeader,
                                      mapping.targetColumn)
             ELSE insert_or_ignore_config(db.config, mapping.newColumnName,
                                          mapping.originalHeader,
                                          mapping.isRequired)
      columns == IF mapping.action = create_new
                 THEN alter_table_add_column(db.leads_columns,
                                             mapping.newColumnName)
                 ELSE db.leads_columns
  IN  [config |-> cfg,
       leads_columns |-> columns,
       leads |-> add_column_to_rows(db.leads, columns),
       mapping_history |-> IF cfg # db.config
                           THEN log_mapping(db.mapping_history, mapping)
                           ELSE db.mapping_history]

\* One iteration of for mapping in mappings, on the database as the
\* connection of apply_mapping sees it.
apply_one_mapping(db, mapping) ==
  LET cfg == IF mapping.action = map_existing
             THEN map_existing_column(db.config, mapping.originalHeader,
                                      mapping.targetColumn)
             ELSE IF mapping.action = create_new
             THEN insert_or_ignore_config(db.config, mapping.newColumnName,
                                          mapping.originalHeader,
                                          mapping.isRequired)
             ELSE db.config
      columns == IF mapping.action = create_new
                 THEN alter_table_add_column(db.leads_columns,
                                             mapping.newColumnName)
                 ELSE db.leads_columns
  IN  [config |-> cfg,
       leads_columns |-> columns,
       leads |-> add_column_to_rows(db.leads, columns),
       mapping_history |-> log_mapping(db.mapping_history, mapping)]

RECURSIVE apply_mappings(_, _, _)
apply_mappings(n, db, mappings) ==
  IF n = 0
  THEN db
  ELSE apply_one_mapping(apply_mappings(n - 1, db, mappings), mappings[n])

\* df[header].dropna().head(3).tolist()
samples_of(file, header) ==
  LET k == CHOOSE i \in 1..Len(file.headers) : file.headers[i] = header
      column == [i \in 1..Len(file.rows) |-> file.rows[i][k]]
      present == SelectSeq(column, LAMBDA v : v # NaN)
  IN  SubSeq(present, 1, IF Len(present) < 3 THEN Len(present) ELSE 3)

\* process_data without its INSERT INTO processing_log.
Commit_no_log(run) ==
  /\ leads' = run.table
  /\ processing_log' = processing_log
  /\ processed' = Append(processed, run.outcomes)
  /\ response' = run.result

\* conn.commit() of process_data: the inserted rows and the processing_log row
\* are committed together; the handler returns jsonify(result).
Commit(run) ==
  /\ leads' = run.table
  /\ processing_log' = Append(processing_log, run.log)
  /\ processed' = Append(processed, run.outcomes)
  /\ response' = run.result

\* ---------------------------------------------------------------- handlers
\* upload_file without the needs_mapping return: the rows are processed with
\* the headers that resolved.
upload_file_no_halt(file) ==
  /\ Len(processing_log) < MaxRuns
  /\ uploads' = uploads \cup {file.name}
  /\ call' = [handler |-> "upload_file", file |-> file.name]
  /\ Commit(process_data(leads, leads_columns, file,
                         map_headers(file.headers, get_schema(config)).header_map,
                         file.name))
  /\ UNCHANGED <<config, leads_columns, mapping_history, pending>>
  /\ UNCHANGED <<runs, write_lock, evaluation>>

\* POST /api/upload with a parsable file of an allowed type
upload_file(file) ==
  /\ Len(processing_log) < MaxRuns
  /\ uploads' = uploads \cup {file.name}
  /\ call' = [handler |-> "upload_file", file |-> file.name]
  /\ LET schema == get_schema(config)
         mapped == map_headers(file.headers, schema)
     IN  IF mapped.unknown_headers # <<>>
         THEN /\ response' =
                   [status |-> "needs_mapping",
                    unknown_headers |-> mapped.unknown_headers,
                    samples |-> [i \in 1..Len(mapped.unknown_headers) |->
                                   samples_of(file, mapped.unknown_headers[i])],
                    schema_columns |-> schema.columns,
                    temp_file |-> file.name]
              /\ pending' = pending \cup {file.name}
              /\ UNCHANGED <<config, leads_columns, leads, processing_log,
                             mapping_history, processed>>
         ELSE /\ Commit(process_data(leads, leads_columns, file,
                                     mapped.header_map, file.name))
              /\ UNCHANGED <<config, leads_columns, mapping_history, pending>>
  /\ UNCHANGED <<runs, write_lock, evaluation>>

\* POST /api/apply_mapping with a temp_file that a needs_mapping response
\* named
apply_mapping(file, mappings) ==
  /\ Len(processing_log) < MaxRuns
  /\ file.name \in pending
  /\ file.name \in uploads
  /\ call' = [handler |-> "apply_mapping", file |-> file.name,
              mappings |-> mappings]
  /\ LET db == apply_mappings(Len(mappings),
                              [config |-> config,
                               leads_columns |-> leads_columns,
                               leads |-> leads,
                               mapping_history |-> mapping_history],
                              mappings)
         schema == get_schema(db.config)
         mapped == map_headers(file.headers, schema)
     IN  /\ config' = db.config
         /\ leads_columns' = db.leads_columns
         /\ mapping_history' = db.mapping_history
         /\ Commit(process_data(db.leads, db.leads_columns, file,
                                mapped.header_map, file.name))
  /\ UNCHANGED <<uploads, pending, runs, write_lock, evaluation>>

Next ==
  \/ \E file \in Files : upload_file(file)
  \/ \E file \in Files : \E mappings \in Batches : apply_mapping(file, mappings)

Spec == Init /\ [][Next]_vars

\* ------------------------------------------ two sightings of one email
\* Spellings of an email: the case of its letters changed, whitespace put
\* before and after it.
ToUpper ==
  [c \in LowerSet |-> UpperCase[CHOOSE i \in 1..Len(LowerCase) : LowerCase[i] = c]]

upper(s) == [i \in 1..Len(s) |-> IF s[i] \in LowerSet THEN ToUpper[s[i]] ELSE s[i]]

capitalize(s) == upper(SubSeq(s, 1, 1)) \o SubSeq(s, 2, Len(s))

\* Emails in lower case with no whitespace around them.
EmailBases == {<<"j", "@", "x", ".", "c", "o">>, <<"a", "l", ".", "b", "@", "y", ".", "i", "o">>}

Paddings == {<<>>, <<" ", "\t">>}

EmailSpellings(base) ==
  {left \o cased \o right :
     left \in Paddings, right \in Paddings,
     cased \in {base, upper(base), capitalize(base)}}

PhoneCells == {NaN, <<"5", "5", "5", "-", "1", "2", "1", "2">>, <<"(", "5", "5", "5", ")", " ", "1", "2">>}

Email == <<"E", "m", "a", "i", "l">>
Phone == <<"P", "h", "o", "n", "e">>

\* A file with one row, the record (email, phone), under known headers.
RecordFile(n, email, phone) ==
  [name |-> <<"r", IF n = 1 THEN "1" ELSE "2">>,
   headers |-> <<Email, Phone>>,
   rows |-> <<<<email, phone>>>>]

\* Two records whose emails are spellings of one email; any phones.
InitIdentity ==
  /\ Installed
  /\ \E base \in EmailBases :
       \E email1 \in EmailSpellings(base), email2 \in EmailSpellings(base) :
         \E phone1 \in PhoneCells, phone2 \in PhoneCells :
           evaluation = [op |-> "generate_lead_id", base |-> base,
                         email1 |-> email1, phone1 |-> phone1,
                         email2 |-> email2, phone2 |-> phone2]

\* The first record is uploaded, then the second.
upload_record ==
  \/ /\ Len(processing_log) = 0
     /\ upload_file(RecordFile(1, evaluation.email1, evaluation.phone1))
  \/ /\ Len(processing_log) = 1
     /\ upload_file(RecordFile(2, evaluation.email2, evaluation.phone2))

NextIdentity == upload_record

SpecIdentity == InitIdentity /\ [][NextIdentity]_vars

\* ------------------------------------------- uploads that need a mapping
\* The two files whose upload returns needs_mapping, one of them with no
\* rows and a header that holds a comma, and the batches that answer them.
ResolveFiles == {FileC, FileD}

ResolveBatches ==
  { <<Attach(Zip, col_city)>>,
    <<Create(Zip, new_zip_code, FALSE)>>,
    <<Attach(ZipCode, col_city)>>,
    <<Create(ZipCode, new_zip_code, FALSE)>> }

NextResolve ==
  \/ \E file \in ResolveFiles : upload_file(file)
  \/ \E file \in ResolveFiles : \E mappings \in ResolveBatches :
        apply_mapping(file, mappings)

SpecResolve == Init /\ [][NextResolve]_vars

\* ------------------------------------------------- map_headers on its own
\* Raw headers: spellings of seeded aliases, and spellings no seeded alias has.
HeaderPool ==
  {Email, <<"E", "-", "m", "a", "i", "l">>, Phone, Zip, <<"Z", "I", "P", " ">>, ZipCode, <<"z", "i", "p", "c", "o", "d", "e">>}

\* The header rows of at most MaxHeaders distinct headers (pandas makes the
\* column labels of a file distinct).
HeaderRows ==
  {headers \in UNION {[1..n -> HeaderPool] : n \in 0..MaxHeaders} :
     \A i, j \in 1..Len(headers) : i # j => headers[i] # headers[j]}

\* The config rows after one batch of mappings on the seeded config, and the
\* seeded config itself.
ConfigAfter(mappings) ==
  apply_mappings(Len(mappings),
                 [config |-> default_config, leads_columns |-> leads_base_columns,
                  leads |-> <<>>, mapping_history |-> <<>>],
                 mappings).config

Configs == {ConfigAfter(mappings) : mappings \in Batches \cup ResolveBatches}

NoResult == [header_map |-> EmptyDict, unknown_headers |-> <<>>]

InitReconcile ==
  /\ Installed
  /\ \E headers \in HeaderRows : \E cfg \in Configs :
       evaluation = [op |-> "map_headers", headers |-> headers, config |-> cfg,
                     done |-> FALSE, result |-> NoResult]

\* header_map, unknown_headers = map_headers(headers, schema)
map_headers_call ==
  /\ evaluation.op = "map_headers"
  /\ ~evaluation.done
  /\ evaluation' =
       [evaluation EXCEPT
          !.done = TRUE,
          !.result = map_headers(evaluation.headers, get_schema(evaluation.config))]
  /\ UNCHANGED <<config, leads_columns, leads, processing_log, mapping_history,
                 uploads, pending, response, call, processed, runs, write_lock>>

NextReconcile == map_headers_call

SpecReconcile == InitReconcile /\ [][NextReconcile]_vars


\* ------------------------------------------------- concurrent upload_file
\* Two requests run upload_file at the same time.  Each row of process_data
\* takes two steps, check_duplicate and the INSERT; another request may run
\* between them.  sqlite gives the write lock to the connection of the first
\* INSERT of a transaction and frees it at conn.commit(); a connection that
\* finds the lock taken waits, and raises OperationalError (database is
\* locked) when the wait outlasts the timeout of sqlite3.connect.

\* The next place of a request after row i of its file.
after_row(run) ==
  IF run.i < Len(run.file.rows)
  THEN [run EXCEPT !.pc = "row", !.i = @ + 1]
  ELSE [run EXCEPT !.pc = "log"]

run_lead_data(run) ==
  row_lead_data(run.file.rows[run.i], run.file.headers, run.header_map)

run_lead_id(run) ==
  generate_lead_id(row_email(run_lead_data(run)), row_phone(run_lead_data(run)))

\* upload_file up to the call of process_data
StartUpload(r, file) ==
  /\ runs[r].pc = "idle"
  /\ uploads' = uploads \cup {file.name}
  /\ LET schema == get_schema(config)
         mapped == map_headers(file.headers, schema)
     IN  IF mapped.unknown_headers # <<>>
         THEN /\ runs' = [runs EXCEPT ![r] =
                   [pc |-> "done", file |-> file,
                    result |-> [status |-> "needs_mapping",
                                unknown_headers |-> mapped.unknown_headers]]]
              /\ pending' = pending \cup {file.name}
         ELSE /\ runs' = [runs EXCEPT ![r] =
                   [pc |-> IF file.rows = <<>> THEN "log" ELSE "row",
                    file |-> file, header_map |-> mapped.header_map,
                    i |-> 1, txn |-> <<>>, new_leads |-> 0,
                    duplicates |-> 0, outcomes |-> <<>>,
                    result |-> [status |-> "none"]]]
              /\ UNCHANGED pending
  /\ UNCHANGED <<config, leads_columns, leads, processing_log,
                 mapping_history, response, call, processed, write_lock,
                 evaluation>>

\* One row up to the INSERT: lead_data, lead_id, check_duplicate
CheckRow(r) ==
  /\ runs[r].pc = "row"
  /\ LET run == runs[r]
         lead_data == run_lead_data(run)
         lead_id == run_lead_id(run)
     IN  runs' = [runs EXCEPT ![r] =
           IF lead_id = EmptyStr
           THEN after_row(skip_row(run, lead_id, lead_data))
           ELSE IF check_duplicate(row_email(lead_data), row_phone(lead_data),
                                   leads)
           THEN after_row(count_duplicate(run, lead_id, lead_data))
           ELSE [run EXCEPT !.pc = "insert"]]
  /\ UNCHANGED <<config, leads_columns, leads, processing_log, mapping_history,
                 uploads, pending, response, call, processed, write_lock,
                 evaluation>>

\* The INSERT with the write lock free or held by this request: IntegrityError
\* when lead_id is in a committed row or a row of this transaction.
InsertRow(r) ==
  /\ runs[r].pc = "insert"
  /\ write_lock \in {NoRun, r}
  /\ write_lock' = r
  /\ LET run == runs[r]
         lead_data == run_lead_data(run)
         lead_id == run_lead_id(run)
     IN  runs' = [runs EXCEPT ![r] =
           IF lead_exists(leads \o run.txn, lead_id)
           THEN after_row(count_duplicate(run, lead_id, lead_data))
           ELSE after_row(
                  [run EXCEPT
                     !.txn = Append(@, new_lead(leads_columns, lead_id,
                                                lead_data, run.file.name)),
                     !.new_leads = @ + 1,
                     !.outcomes = Append(@, Outcome(lead_id, "inserted",
                                                    lead_data))])]
  /\ UNCHANGED <<config, leads_columns, leads, processing_log, mapping_history,
                 uploads, pending, response, call, processed, evaluation>>

\* The INSERT INTO processing_log and conn.commit(), with the write lock free
\* or held by this request
LogAndCommit(r) ==
  /\ runs[r].pc = "log"
  /\ write_lock \in {NoRun, r}
  /\ write_lock' = NoRun
  /\ LET run == runs[r]
         total_rows == Len(run.file.rows)
     IN  /\ leads' = leads \o run.txn
         /\ processing_log' = Append(processing_log,
              [source_file |-> run.file.name, total_rows |-> total_rows,
               new_leads |-> run.new_leads, duplicates |-> run.duplicates,
               success_rate |-> success_rate(run.new_leads, total_rows)])
         /\ runs' = [runs EXCEPT ![r] =
              [run EXCEPT !.pc = "done",
                          !.txn = <<>>,
                          !.result =
                            [status |-> "success", total_rows |-> total_rows,
                             new_leads |-> run.new_leads,
                             duplicates |-> run.duplicates,
                             success_rate |->
                               round_1(success_rate(run.new_leads, total_rows))]]]
  /\ UNCHANGED <<config, leads_columns, mapping_history, uploads, pending,
                 response, call, processed, evaluation>>

\* An INSERT (into leads or processing_log) that waited for the other
\* request's write lock longer than the timeout: OperationalError is no
\* IntegrityError, so it leaves process_data and upload_file answers 500.
\* Nothing of the request is committed.
LockTimeout(r) ==
  /\ runs[r].pc \in {"insert", "log"}
  /\ write_lock \notin {NoRun, r}
  /\ runs' = [runs EXCEPT ![r] =
       [runs[r] EXCEPT !.pc = "failed",
                       !.txn = <<>>,
                       !.result = [status |-> "error"]]]
  /\ UNCHANGED <<config, leads_columns, leads, processing_log, mapping_history,
                 uploads, pending, response, call, processed, write_lock,
                 evaluation>>

NextConcurrent ==
  \/ \E r \in RunIds : \E file \in Files : StartUpload(r, file)
  \/ \E r \in RunIds : CheckRow(r)
  \/ \E r \in RunIds : InsertRow(r)
  \/ \E r \in RunIds : LogAndCommit(r)
  \/ \E r \in RunIds : LockTimeout(r)

SpecConcurrent == Init /\ [][NextConcurrent]_vars

\* ------------------------------------------------------------------ claims
\* The rows processed so far, as <<run, row>> positions in processing order.
Positions ==
  UNION {{<<r, i>> : i \in 1..Len(processed[r])} : r \in 1..Len(processed)}

Before(p, q) == p[1] < q[1] \/ (p[1] = q[1] /\ p[2] < q[2])

At(p) == processed[p[1]][p[2]]

SeenBefore(p) ==
  \E q \in Positions : Before(q, p) /\ At(q).lead_id = At(p).lead_id

CountOutcome(r, outcome) ==
  Cardinality({i \in 1..Len(processed[r]) : processed[r][i].outcome = outcome})

FileNamed(file_name) ==
  CHOOSE file \in Files \cup ResolveFiles : file.name = file_name

\* The unknown headers of a file under the schema of config rows cfg.
UnknownHeaders(file, cfg) == map_headers(file.headers, get_schema(cfg)).unknown_headers

\* C1: at most one Lead per identity; of the processed records with one
\* non-empty identity, the first processed (across runs, in row order within a
\* run) is stored and counted in new_leads, every later one is counted as a
\* duplicate and not stored.
C1_AtMostOnce ==
  /\ \A i, j \in 1..Len(leads) :
       leads[i][col_lead_id] = leads[j][col_lead_id] => i = j
  /\ \A p \in Positions :
       At(p).lead_id # EmptyStr =>
         /\ lead_exists(leads, At(p).lead_id)
         /\ At(p).outcome = (IF SeenBefore(p) THEN "duplicate" ELSE "inserted")
  /\ Len(leads) = Cardinality({p \in Positions : At(p).outcome = "inserted"})
  /\ \A r \in 1..Len(processed) :
       /\ processing_log[r].new_leads = CountOutcome(r, "inserted")
       /\ processing_log[r].duplicates = CountOutcome(r, "duplicate")

\* C1 witness: an identity seen twice in one run and again in a later run.
C1_Witness ==
  \E p, q, u \in Positions :
    /\ p[1] = q[1] /\ p[2] < q[2] /\ q[1] < u[1]
    /\ At(p).lead_id # EmptyStr
    /\ At(q).lead_id = At(p).lead_id /\ At(u).lead_id = At(p).lead_id
    /\ At(p).outcome = "inserted"

\* C2: a Lead in the store before a call has the same field values, status and
\* source file after it.
C2_StoredLeadUnchanged ==
  [][\A i \in 1..Len(leads) :
       \E j \in 1..Len(leads') :
         \A c \in DOMAIN leads[i] :
           c \in DOMAIN leads'[j] /\ leads'[j][c] = leads[i][c]]_vars

\* C2 witness: a run counted a record as a duplicate of a stored Lead whose
\* name differs from the record's.
C2_Witness ==
  \E p \in Positions : \E i \in 1..Len(leads) :
    /\ At(p).outcome = "duplicate"
    /\ leads[i][col_lead_id] = At(p).lead_id
    /\ dict_has(At(p).lead_data, col_name)
    /\ dict_get(At(p).lead_data, col_name) # leads[i][col_name]
    /\ leads[i][col_source_file] # processing_log[p[1]].source_file

\* C3: an upload whose file has an unknown header returns needs_mapping and
\* inserts no Lead, appends no ProcessingRun and leaves the schema registry as
\* it was.
C3_NeedsMappingHalts ==
  [][(call'.handler = "upload_file"
        /\ UnknownHeaders(FileNamed(call'.file), config) # <<>>)
     => /\ response'.status = "needs_mapping"
        /\ UNCHANGED <<leads, processing_log, config, leads_columns,
                       mapping_history, processed>>]_vars

\* C3 witness: needs_mapping was returned for a file with rows that carry an
\* identity, after a run had stored Leads.
C3_Witness ==
  /\ response.status = "needs_mapping"
  /\ call.handler = "upload_file"
  /\ response.unknown_headers = <<Zip>>
  /\ Len(leads) > 0

\* C4: a resume whose decisions leave a header of the file unknown returns
\* needs_mapping and inserts no Lead.
C4_ResumeRebranches ==
  [][(call'.handler = "apply_mapping"
        /\ UnknownHeaders(FileNamed(call'.file), config') # <<>>)
     => (response'.status = "needs_mapping" /\ leads' = leads)]_vars

\* The first assignment to the key of assignment i of dict d.
FirstAssignment(d, i) ==
  CHOOSE k \in 1..Len(d) :
    d[k][1] = d[i][1] /\ \A j \in 1..(k - 1) : d[j][1] # d[i][1]

\* C5: a key that aliases of several columns normalize to is mapped by the
\* lookup table to the column registered first.
C5_FirstWriterWins ==
  LET alias_map == get_schema(config).alias_map
  IN  \A i \in 1..Len(alias_map) :
        dict_get(alias_map, alias_map[i][1])
          = alias_map[FirstAssignment(alias_map, i)][2]

\* C6: a batch with an attach to a column that does not exist reports an error
\* and leaves the schema registry as it was before the batch.
C6_UnknownTargetAtomic ==
  [][(call'.handler = "apply_mapping"
        /\ \E k \in 1..Len(call'.mappings) :
             /\ call'.mappings[k].action = map_existing
             /\ config_index(config', call'.mappings[k].targetColumn) = {})
     => /\ response'.status = "error"
        /\ config' = config
        /\ leads_columns' = leads_columns]_vars

SeededColumns == {default_config[i].canonical_column : i \in 1..Len(default_config)}

\* C7: once a create_new decision has mapped header H to a new column C, the
\* files whose unknown header was H reconcile with no unknown header, and
\* every Lead inserted from a row with a non-blank H value holds it in field C.
C7_CreateColumnRoundTrip ==
  /\ \A h \in 1..Len(mapping_history) :
       (mapping_history[h].action = create_new
          /\ mapping_history[h].target_column \notin SeededColumns)
       => UnknownHeaders(FileC, config) = <<>>
  /\ \A p \in Positions :
       At(p).outcome = "inserted" =>
         \A k \in 1..Len(At(p).lead_data) :
           LET c == At(p).lead_data[k][1]
               v == dict_get(At(p).lead_data, c)
           IN  (c \notin SeededColumns /\ v # EmptyStr) =>
                 \E i \in 1..Len(leads) :
                   /\ leads[i][col_lead_id] = At(p).lead_id
                   /\ c \in DOMAIN leads[i]
                   /\ leads[i][c] = v

\* C8: the identity of a record is empty exactly when its email, mobile phone
\* and company phone are all blank after trimming.
C8_IdentityEmptyIffAllBlank ==
  \A p \in Positions :
    LET lead_data == At(p).lead_data
    IN  (At(p).lead_id = EmptyStr)
          <=> /\ strip(dict_get_or(lead_data, col_email, EmptyStr)) = EmptyStr
              /\ strip(dict_get_or(lead_data, col_mobile_phone, EmptyStr)) = EmptyStr
              /\ strip(dict_get_or(lead_data, col_company_phone, EmptyStr)) = EmptyStr

LastRun(log) == log[Len(log)]

\* A run of the file of the previous run, made with the schema unchanged.
SameFileAgain ==
  /\ Len(processing_log) >= 1
  /\ Len(processing_log') = Len(processing_log) + 1
  /\ LastRun(processing_log').source_file = LastRun(processing_log).source_file
  /\ config' = config

\* C9 as stated: the second run inserts nothing and reports as duplicates the
\* new_leads count of the first run.
C9_SecondRunDuplicatesEqualNew ==
  [][SameFileAgain =>
       /\ LastRun(processing_log').new_leads = 0
       /\ LastRun(processing_log').duplicates
            = LastRun(processing_log).new_leads]_vars

\* C9 amended: the second run inserts nothing and reports as duplicates the
\* new_leads count plus the duplicates count of the first run.
C9_SecondRunAllDuplicates ==
  [][SameFileAgain =>
       /\ LastRun(processing_log').new_leads = 0
       /\ LastRun(processing_log').duplicates
            = LastRun(processing_log).new_leads
                + LastRun(processing_log).duplicates]_vars

\* C9 witness: a file was run twice in a row by upload_file, and its first run
\* had counted both new Leads and duplicates.
C9_Witness ==
  /\ Len(processing_log) >= 2
  /\ call.handler = "upload_file"
  /\ response.status = "success"
  /\ LET n == Len(processing_log)
     IN  /\ processing_log[n].source_file = processing_log[n - 1].source_file
         /\ processing_log[n - 1].new_leads > 0
         /\ processing_log[n - 1].duplicates > 0
         /\ processing_log[n].new_leads = 0

RunEnded(r) == runs[r].pc \in {"done", "failed"}

\* The non-empty identities the rows of a request's file derive.
RunIdentities(r) ==
  {generate_lead_id(
     row_email(row_lead_data(runs[r].file.rows[i], runs[r].file.headers,
                             runs[r].header_map)),
     row_phone(row_lead_data(runs[r].file.rows[i], runs[r].file.headers,
                             runs[r].header_map))) :
     i \in 1..Len(runs[r].file.rows)} \ {EmptyStr}

RunCounted(r, lead_id, outcome) ==
  /\ runs[r].pc = "done"
  /\ \E k \in 1..Len(runs[r].outcomes) :
       /\ runs[r].outcomes[k].lead_id = lead_id
       /\ runs[r].outcomes[k].outcome = outcome

\* C10: when two concurrent runs whose files carry a record of one identity
\* have ended, neither has failed, the store holds one Lead of that identity,
\* one run counted it in new_leads and the other counted it as a duplicate.
C10_ConcurrentRunsDedup ==
  (/\ \A r \in RunIds : RunEnded(r) /\ "header_map" \in DOMAIN runs[r]
   /\ RunIdentities(1) \cap RunIdentities(2) # {})
  => /\ \A r \in RunIds : runs[r].pc = "done" /\ runs[r].result.status = "success"
     /\ \A lead_id \in RunIdentities(1) \cap RunIdentities(2) :
          /\ Cardinality({i \in 1..Len(leads) :
                            leads[i][col_lead_id] = lead_id}) = 1
          /\ \E r \in RunIds : \E o \in RunIds \ {r} :
               /\ RunCounted(r, lead_id, "inserted")
               /\ ~RunCounted(o, lead_id, "inserted")
               /\ RunCounted(o, lead_id, "duplicate")

\* The column a decision names: the target of an attach, the new column of a
\* createColumn.
DecisionTarget(mapping) ==
  IF mapping.action = map_existing
  THEN mapping.targetColumn
  ELSE mapping.newColumnName

\* C11: every decision of a batch applied by apply_mapping, whether or not it
\* changed the config table, appends exactly one mapping_history row with the
\* decision's original header, action and target, in the order of the batch;
\* the rows written before stay as they were.
C11_EveryDecisionLogged ==
  [][call'.handler = "apply_mapping" =>
       LET ms == call'.mappings
           n == Len(mapping_history)
       IN  /\ Len(mapping_history') = n + Len(ms)
           /\ SubSeq(mapping_history', 1, n) = mapping_history
           /\ \A k \in 1..Len(ms) :
                /\ mapping_history'[n + k].original_header = ms[k].originalHeader
                /\ mapping_history'[n + k].action = ms[k].action
                /\ mapping_history'[n + k].target_column = DecisionTarget(ms[k])]_vars

\* A batch with an attach to a column that does not exist has been logged,
\* and so has a createColumn of a column that existed.
C11_Witness ==
  /\ call.handler = "apply_mapping"
  /\ call.mappings = <<Attach(Zip, col_city), Attach(Zip, nope)>>
  /\ \E k \in 1..Len(mapping_history) :
       /\ mapping_history[k].action = create_new
       /\ mapping_history[k].target_column = col_email
  /\ mapping_history[Len(mapping_history)].target_column = nope
  /\ mapping_history[Len(mapping_history) - 1].target_column = col_city

\* The canonical columns of the config rows cfg.
ConfigColumns(cfg) == {cfg[i].canonical_column : i \in 1..Len(cfg)}

\* C12: a createColumn whose new column name is already a canonical column
\* is not an error and changes no row of config: the column keeps its
\* aliases and its required flag, and so does every other column.
C12_CreateExistingIgnored ==
  [][(/\ call'.handler = "apply_mapping"
      /\ call'.mappings # <<>>
      /\ \A k \in 1..Len(call'.mappings) :
           /\ call'.mappings[k].action = create_new
           /\ call'.mappings[k].newColumnName \in ConfigColumns(config))
     => /\ config' = config
        /\ response'.status = "success"]_vars

\* createColumn of email, with the required flag set and the header Zip, has
\* been applied, and createColumn of zip_code has been applied twice.
C12_Witness ==
  /\ call.handler = "apply_mapping"
  /\ call.mappings = <<Create(Zip, col_email, TRUE)>>
  /\ response.status = "success"
  /\ \E j, k \in 1..Len(mapping_history) :
       /\ j < k
       /\ mapping_history[j].target_column = new_zip_code
       /\ mapping_history[k].target_column = new_zip_code

\* The canonical columns of cfg in the order of their rows, as file headers.
ColumnsAsHeaders(cfg) == [i \in 1..Len(cfg) |-> cfg[i].canonical_column]

\* C13: under the seeded config and under every config that batches of
\* mapping decisions have made of it, a file header that is the name of a
\* canonical column is mapped by map_headers and is not an unknown header.
C13_ColumnNameResolves ==
  LET headers == ColumnsAsHeaders(config)
      mapped == map_headers(headers, get_schema(config))
  IN  /\ mapped.unknown_headers = <<>>
      /\ \A i \in 1..Len(headers) : dict_has(mapped.header_map, headers[i])

\* Two batches have each created a column.
C13_Witness ==
  /\ new_zip_code \in ConfigColumns(config)
  /\ new_phone \in ConfigColumns(config)
  /\ Len(config) = Len(default_config) + 2

\* The rows of a run, by number, whose outcome is one of outcomes.
RowsWith(out, outcomes) == {i \in 1..Len(out) : out[i].outcome \in outcomes}

\* C14: a run of process_data puts every row of the file in exactly one of
\* inserted, duplicate and skipped; the skipped rows are the rows with the
\* empty lead_id; new_leads + duplicates + skipped = total_rows; new_leads is
\* the number of rows the run added to leads, one per inserted row, and each
\* added row has lead_status Active and a lead_id that is not empty.
C14_RowAccounting ==
  [][Len(processing_log') = Len(processing_log) + 1 =>
       LET run == processing_log'[Len(processing_log')]
           out == processed'[Len(processed')]
           n == Len(leads)
           inserted == RowsWith(out, {"inserted"})
           skipped == RowsWith(out, {"skipped"})
       IN  /\ Len(out) = Len(FileNamed(call'.file).rows)
           /\ run.total_rows = Len(out)
           /\ RowsWith(out, {"inserted", "duplicate", "skipped"}) = 1..Len(out)
           /\ skipped = {i \in 1..Len(out) : out[i].lead_id = EmptyStr}
           /\ run.new_leads + run.duplicates + Cardinality(skipped)
                = run.total_rows
           /\ run.new_leads = Cardinality(inserted)
           /\ Len(leads') = n + run.new_leads
           /\ \A k \in n + 1..Len(leads') :
                /\ leads'[k][col_lead_status] = Active
                /\ leads'[k][col_lead_id] # EmptyStr
                /\ \E i \in inserted : out[i].lead_id = leads'[k][col_lead_id]]_vars

\* A run has had a row of each class: b.csv after a.csv inserts rows, finds
\* the email of a.csv again and skips the row with no email and no phone.
C14_Witness ==
  \E r \in 1..Len(processed) :
    /\ CountOutcome(r, "inserted") > 0
    /\ CountOutcome(r, "duplicate") > 0
    /\ CountOutcome(r, "skipped") > 0
    /\ processing_log[r].total_rows = Len(processed[r])

\* C15: a call of upload_file or apply_mapping that returns success appends
\* exactly one processing_log row, whose total_rows, new_leads and duplicates
\* are those of the response and whose success_rate is 0 when total_rows is
\* 0; a call that returns needs_mapping appends none; no call changes or
\* removes a row appended before.
C15_OneRunPerSuccess ==
  [][LET n == Len(processing_log)
     IN  /\ SubSeq(processing_log', 1, n) = processing_log
         /\ response'.status = "needs_mapping" => processing_log' = processing_log
         /\ response'.status = "success" =>
              /\ Len(processing_log') = n + 1
              /\ processing_log'[n + 1].source_file = call'.file
              /\ processing_log'[n + 1].total_rows = response'.total_rows
              /\ processing_log'[n + 1].new_leads = response'.new_leads
              /\ processing_log'[n + 1].duplicates = response'.duplicates
              /\ response'.total_rows = 0 =>
                   /\ processing_log'[n + 1].success_rate[1] = 0
                   /\ response'.success_rate = 0]_vars

\* A run over the file with no rows has returned success after a run over a
\* file with rows, and an upload has returned needs_mapping in between.
C15_Witness ==
  /\ response.status = "success"
  /\ response.total_rows = 0
  /\ Len(processing_log) = 2
  /\ processing_log[1].total_rows > 0
  /\ processing_log[2].total_rows = 0
  /\ pending = {FileC.name, FileD.name}

\* C16: two emails that are not blank and differ only in the case of their
\* letters or in the whitespace around them give the same lead_id, the email
\* in lower case without that whitespace, whatever the phones are; the row
\* with the second email is counted a duplicate of the lead the first made.
C16_SameIdentity ==
  evaluation.op = "generate_lead_id" =>
    /\ generate_lead_id(evaluation.email1, evaluation.phone1) = evaluation.base
    /\ generate_lead_id(evaluation.email2, evaluation.phone2) = evaluation.base
    /\ Len(processing_log) >= 1 =>
         /\ Len(leads) = 1
         /\ leads[1][col_lead_id] = evaluation.base
         /\ leads[1][col_email] = evaluation.email1
    /\ Len(processing_log) = 2 =>
         /\ processed[2][1].outcome = "duplicate"
         /\ processed[2][1].lead_id = evaluation.base
         /\ response.new_leads = 0
         /\ response.duplicates = 1

\* Both records have been uploaded; their emails differ from each other and
\* from the lower-case email, in case and in whitespace, and so do the phones.
C16_Witness ==
  /\ evaluation.op = "generate_lead_id"
  /\ Len(processing_log) = 2
  /\ lower(evaluation.email1) # lower(evaluation.email2)
  /\ strip(evaluation.email1) # strip(evaluation.email2)
  /\ strip(evaluation.email1) # evaluation.base
  /\ evaluation.phone1 # evaluation.phone2
  /\ evaluation.phone2 # NaN

\* What map_headers made of header h of the row it was called with: the
\* column it mapped h to, or "unknown".
Reconciled(h) ==
  IF dict_has(evaluation.result.header_map, h)
  THEN <<"mapped", dict_get(evaluation.result.header_map, h)>>
  ELSE IF \E k \in 1..Len(evaluation.result.unknown_headers) :
            evaluation.result.unknown_headers[k] = h
  THEN <<"unknown">>
  ELSE <<"dropped">>

\* What map_headers makes of header h alone under schema.
ReconciledAlone(h, schema) ==
  LET result == map_headers(<<h>>, schema)
  IN  IF result.unknown_headers = <<h>>
      THEN <<"unknown">>
      ELSE <<"mapped", dict_get(result.header_map, h)>>

\* C17: two headers with the same normalize_header key have the same outcome
\* under one schema, in one header row and each on its own: both are mapped
\* to the same column, or both are unknown.
C17_SameKeySameOutcome ==
  (evaluation.op = "map_headers" /\ evaluation.done) =>
    LET schema == get_schema(evaluation.config)
    IN  \A i, j \in 1..Len(evaluation.headers) :
          LET h1 == evaluation.headers[i]
              h2 == evaluation.headers[j]
          IN  normalize_header(h1) = normalize_header(h2) =>
                /\ Reconciled(h1) = Reconciled(h2)
                /\ Reconciled(h1) # <<"dropped">>
                /\ ReconciledAlone(h1, schema) = Reconciled(h1)
                /\ ReconciledAlone(h2, schema) = Reconciled(h1)

\* map_headers has been called, under a config that a batch has changed,
\* with two spellings of one key, which are mapped, and with the header that
\* holds a comma, which is unknown.
C17_Witness ==
  /\ evaluation.op = "map_headers"
  /\ evaluation.done
  /\ \E i, j \in 1..Len(evaluation.headers) :
       /\ evaluation.headers[i] # evaluation.headers[j]
       /\ normalize_header(evaluation.headers[i])
            = normalize_header(evaluation.headers[j])
       /\ Reconciled(evaluation.headers[i])[1] = "mapped"
  /\ Reconciled(ZipCode) = <<"unknown">>
  /\ evaluation.config # default_config

\* C19: map_headers splits a row of distinct headers in two: each header is
\* a key of header_map or an entry of unknown_headers and not both; it is a
\* key of header_map exactly when its normalize_header key is in alias_map;
\* unknown_headers holds the unknown headers in the order of the file.
C19_HeadersPartitioned ==
  (evaluation.op = "map_headers" /\ evaluation.done) =>
    LET headers == evaluation.headers
        alias_map == get_schema(evaluation.config).alias_map
        header_map == evaluation.result.header_map
        unknown_headers == evaluation.result.unknown_headers
        known(h) == dict_has(alias_map, normalize_header(h))
        unknown(h) == ~known(h)
    IN  /\ \A i \in 1..Len(headers) :
             /\ dict_has(header_map, headers[i]) <=> known(headers[i])
             /\ (\E k \in 1..Len(unknown_headers) :
                   unknown_headers[k] = headers[i]) <=> ~known(headers[i])
        /\ Len(header_map) + Len(unknown_headers) = Len(headers)
        /\ \A k \in 1..Len(header_map) :
             \E i \in 1..Len(headers) : headers[i] = header_map[k][1]
        /\ unknown_headers = SelectSeq(headers, unknown)

\* map_headers has been called with a row of two unknown headers and a known
\* header between them.
C19_Witness ==
  /\ evaluation.op = "map_headers"
  /\ evaluation.done
  /\ Len(evaluation.headers) = 3
  /\ evaluation.result.unknown_headers
       = <<evaluation.headers[1], evaluation.headers[3]>>
  /\ dict_has(evaluation.result.header_map, evaluation.headers[2])

\* A batch that answers the unknown headers of a file under the config rows
\* cfg: one decision for each unknown header and no other decision, each an
\* attach to a column that exists or a createColumn of a column that does not.
AnswersUnknown(file, mappings, cfg) ==
  LET unknown == UnknownHeaders(file, cfg)
  IN  /\ unknown # <<>>
      /\ \A i \in 1..Len(unknown) :
           Cardinality({k \in 1..Len(mappings) :
                          mappings[k].originalHeader = unknown[i]}) = 1
      /\ \A k \in 1..Len(mappings) :
           /\ \E i \in 1..Len(unknown) : unknown[i] = mappings[k].originalHeader
           /\ mappings[k].action = map_existing =>
                mappings[k].targetColumn \in ConfigColumns(cfg)
           /\ mappings[k].action = create_new =>
                mappings[k].newColumnName \notin ConfigColumns(cfg)

\* C18: after apply_mapping has applied a batch that answers every unknown
\* header of the file, map_headers on the new schema maps each of those
\* headers to the column its decision named and finds no unknown header,
\* also when a header holds a comma.
C18_AnsweredHeadersResolve ==
  [][(/\ call'.handler = "apply_mapping"
      /\ AnswersUnknown(FileNamed(call'.file), call'.mappings, config))
     => LET file == FileNamed(call'.file)
            mapped == map_headers(file.headers, get_schema(config'))
        IN  /\ mapped.unknown_headers = <<>>
            /\ \A k \in 1..Len(call'.mappings) :
                 LET h == call'.mappings[k].originalHeader
                 IN  /\ dict_has(mapped.header_map, h)
                     /\ dict_get(mapped.header_map, h)
                          = DecisionTarget(call'.mappings[k])]_vars

\* The aliases of a config row, as get_schema reads them.
AliasSet(row) ==
  LET aliases == parse_aliases(row.header_aliases, row.canonical_column)
  IN  {aliases[k] : k \in 1..Len(aliases)}

\* C20: no step deletes a row of config or takes an alias from a row: every
\* row keeps its place and its canonical column, and its aliases stay among
\* the aliases of the row after the step; upload_file leaves config as it is.
C20_RegistryOnlyGrows ==
  [][/\ Len(config') >= Len(config)
     /\ \A i \in 1..Len(config) :
          /\ config'[i].canonical_column = config[i].canonical_column
          /\ AliasSet(config[i]) \subseteq AliasSet(config'[i])
     /\ call'.handler = "upload_file" => config' = config]_vars

\* A batch has attached Zip to city, a batch has created zip_code, and a
\* file has been uploaded after them.
C20_Witness ==
  /\ call.handler = "upload_file"
  /\ Len(config) = Len(default_config) + 1
  /\ config[Len(config)].canonical_column = new_zip_code
  /\ \E i \in 1..Len(default_config) :
       /\ config[i].canonical_column = col_city
       /\ Zip \in AliasSet(config[i])
       /\ AliasSet(default_config[i]) \subseteq AliasSet(config[i])

\* The raw headers of the files uploaded.
FileHeaders ==
  UNION {{file.headers[i] : i \in 1..Len(file.headers)} : file \in Files}

\* C21: a header that map_headers maps to a column under the schema before a
\* step is mapped to the same column under the schema after it, whatever
\* batch of attach and createColumn decisions the step applied, also a
\* createColumn whose new name normalizes to a key another column holds.
C21_ResolutionStable ==
  [][LET before == get_schema(config)
         after == get_schema(config')
     IN  \A h \in FileHeaders :
           ReconciledAlone(h, before)[1] = "mapped" =>
             ReconciledAlone(h, after) = ReconciledAlone(h, before)]_vars

\* An email in lower case with no whitespace around it, not empty.
IsEmailIdentity(lead_id) ==
  /\ lead_id # EmptyStr
  /\ lead_id = strip(lower(lead_id))

\* PHONE_ and then at least one digit, and digits only.
IsPhoneIdentity(lead_id) ==
  /\ Len(lead_id) > Len(PHONE_)
  /\ SubSeq(lead_id, 1, Len(PHONE_)) = PHONE_
  /\ \A k \in Len(PHONE_) + 1..Len(lead_id) : isdigit(lead_id[k])

====
